---- MODULE Spec2Model ----
(***************************************************************************)
(* Model of src/main.rs: the command-line driver `main`, the path length   *)
(* measurer `compute_path_length`, the arc-length resampler                *)
(* `construct_sample_points`, the trimming and transform step of           *)
(* `path_to_fft`, and the component extraction loop of `main`.             *)
(*                                                                         *)
(* Numbers.  The contours explored have integer corner coordinates and     *)
(* axis-parallel segments, so every segment length is an integer.  An f32  *)
(* value that depends on the sample interval is kept exactly, as a         *)
(* fraction num/den: sample_length is total_length / n_sample, with        *)
(* den = 0 standing for the IEEE results of a division by zero (+inf when  *)
(* num > 0, NaN when num = 0).  Sample coordinates are kept multiplied by  *)
(* Scale (n_sample, or 1 when n_sample = 0).  Rounding of f32 is not       *)
(* modelled.                                                               *)
(*                                                                         *)
(* Command-line option values are numeric strings or absent; an absent     *)
(* option is <<>> and the value n is <<n>>.  Option values that do not     *)
(* parse as a number (the fallbacks of lines 232-233) are not explored.    *)
(* The transform of rustfft is external: bin k of its result is the        *)
(* symbolic coefficient Bin(k).                                            *)
(***************************************************************************)
EXTENDS Integers, Sequences, FiniteSets, TLC

VARIABLES opt_path, opt_sample, opt_wave, pc, arg_sample, arg_wave,
          num_sample, num_wave, path_length, sample_length, samples,
          itered_length, itered_index, evt_pos, zero_division,
          fft_result, data

vars == <<opt_path, opt_sample, opt_wave, pc, arg_sample, arg_wave,
          num_sample, num_wave, path_length, sample_length, samples,
          itered_length, itered_index, evt_pos, zero_division,
          fft_result, data>>

(* ------------------------------ bounds --------------------------------- *)
MaxCoord == 1
MaxPts == 4
MaxWaveArg == 8
MaxSampleArg == 1
MaxSpin == 2

(* ------------------------- program constants --------------------------- *)
DefaultSampleArg == 10240
DefaultWaveArg == 201

(* ------------------------------ inputs --------------------------------- *)
Grid == (0..MaxCoord) \X (0..MaxCoord)

AxisParallel(p, q) == p[1] = q[1] \/ p[2] = q[2]

\* the explored contours start at the origin
Start == <<0, 0>>

PointSeqs ==
    {<<>>} \cup {s \in UNION {[1..n -> Grid] : n \in 1..MaxPts} : s[1] = Start}

\* A flattened path with one sub-path: its corner points in order and
\* whether its end event is marked closed.
Contours ==
    {p \in [pts : PointSeqs, close : BOOLEAN] :
        /\ \A k \in 1..(Len(p.pts) - 1) : AxisParallel(p.pts[k], p.pts[k + 1])
        /\ (p.close /\ Len(p.pts) > 0)
              => AxisParallel(p.pts[Len(p.pts)], p.pts[1])}

WaveOptions == {<<>>} \cup {<<n>> : n \in 0..MaxWaveArg}
SampleOptions == {<<>>} \cup {<<n>> : n \in 1..MaxSampleArg}
PathOptions == {<<>>} \cup {<<c>> : c \in Contours}

(* ------------------------- geometry helpers ---------------------------- *)
Abs(x) == IF x < 0 THEN 0 - x ELSE x

\* (to - from).length(): the Euclidean norm, exact on the explored contours
Length(from, to) ==
    LET dx == to[1] - from[1]
        dy == to[2] - from[2]
    IN  CHOOSE r \in 0..(Abs(dx) + Abs(dy)) : r * r = dx * dx + dy * dy

Complex(re, im) == [re |-> re, im |-> im, nan |-> FALSE]
NaNComplex == [re |-> 0, im |-> 0, nan |-> TRUE]

\* path.iter().flattened(0.01): Begin, one Line per segment, End
Events(path) ==
    LET p == path.pts
        n == Len(p)
    IN  IF n = 0 THEN <<>>
        ELSE <<[type |-> "Begin", from |-> p[1], to |-> p[1], close |-> FALSE]>>
             \o [k \in 1..(n - 1) |->
                   [type |-> "Line", from |-> p[k], to |-> p[k + 1], close |-> FALSE]]
             \o <<[type |-> "End", from |-> p[n], to |-> p[1], close |-> path.close]>>

(* ------------------------ compute_path_length -------------------------- *)
\* variant: the closing segment is never added
LengthStepNeverClose(total, evt) ==
    CASE evt.type = "Begin" -> total
      [] evt.type = "Line" -> total + Length(evt.from, evt.to)
      [] evt.type = "End" -> total

\* lines 31-41
LengthStep(total, evt) ==
    CASE evt.type = "Begin" -> total
      [] evt.type = "Line" -> total + Length(evt.from, evt.to)
      [] evt.type = "End" ->
           IF evt.close THEN total + Length(evt.from, evt.to) ELSE total

RECURSIVE LengthFold(_, _, _)
LengthFold(total, evts, k) ==
    IF k > Len(evts) THEN total
    ELSE LengthFold(LengthStep(total, evts[k]), evts, k + 1)

compute_path_length(path) == LengthFold(0, Events(path), 1)

(* --------------------- f32 values as fractions ------------------------- *)
\* q * i for an f32 q and an index i (inf * 0 is NaN, as num = den = 0)
Times(q, i) == [num |-> q.num * i, den |-> q.den]

\* x < q for a length x: true against +inf, false against NaN
LenLt(x, q) == IF q.den > 0 THEN x * q.den < q.num ELSE q.num > 0

\* q <= x and q < x for a length x: false against +inf and NaN
QLe(q, x) == q.den > 0 /\ q.num <= x * q.den
QLt(q, x) == q.den > 0 /\ q.num < x * q.den

\* the factor applied to sample coordinates
Scale == IF num_sample = 0 THEN 1 ELSE num_sample

(* ---------------------- construct_sample_points ------------------------ *)
evts == IF opt_path = <<>> THEN <<>> ELSE Events(opt_path[1])
evt == evts[evt_pos]

\* variant: the end of the segment is not compared with the target
FirstSampleFitsNoUpper(itered, cur, next) == LenLt(itered, next)

\* lines 76-77: the next target lies after the traveled length and not
\* beyond the end of this segment
FirstSampleFits(itered, cur, next) ==
    LenLt(itered, next) /\ QLe(next, itered + cur)

\* lines 78-79: sample_length - (itered_length - sample_length * (index - 1)),
\* as a numerator over sample_length.den
LastAdded(itered, idx) ==
    sample_length.num
      - (itered * sample_length.den - sample_length.num * (idx - 1))

\* lines 81-82: from + (to - from) * (offset / current_line_length)
Interpolate(from, to, cur, off) ==
    IF cur = 0 THEN NaNComplex
    ELSE Complex(from[1] * Scale + ((to[1] - from[1]) * off) \div cur,
                 from[2] * Scale + ((to[2] - from[2]) * off) \div cur)

\* variant: the term of compensation_counter is left out
CompensationSampleFirstOnly(from, to, cur, cc, last) ==
    IF cur = 0 THEN NaNComplex
    ELSE Complex(from[1] * Scale
                   + ((to[1] - from[1]) * (last + sample_length.num)) \div cur,
                 from[2] * Scale
                   + ((to[2] - from[2]) * (last + sample_length.num)) \div cur)

\* lines 95-96: from + (to - from) * (sample_length * counter) / length
\*                   + (to - from) * (last_added + sample_length) / length
CompensationSample(from, to, cur, cc, last) ==
    IF cur = 0 THEN NaNComplex
    ELSE Complex(from[1] * Scale
                   + ((to[1] - from[1]) * (sample_length.num * cc)) \div cur
                   + ((to[1] - from[1]) * (last + sample_length.num)) \div cur,
                 from[2] * Scale
                   + ((to[2] - from[2]) * (sample_length.num * cc)) \div cur
                   + ((to[2] - from[2]) * (last + sample_length.num)) \div cur)

\* line 93: the loop condition of a Line event
LineLoopCond(idx, cur) == QLe(Times(sample_length, idx), itered_length + cur)

\* line 133: the loop condition of the closing segment
CloseLoopCond(idx, cur) == QLt(Times(sample_length, idx), itered_length + cur)

\* lines 93 and 100-101: the number of iterations the loop of a Line event
\* makes from next-sample index idx, the first counter value at which
\* its condition fails
LineIterations(idx, cur) ==
    CHOOSE c \in 0..(num_sample + 1) :
        /\ ~LineLoopCond(idx + c, cur)
        /\ \A b \in 0..(c - 1) : LineLoopCond(idx + b, cur)

\* lines 133 and 140-141: the same for the loop of the closing segment
CloseIterations(idx, cur) ==
    CHOOSE c \in 0..(num_sample + 1) :
        /\ ~CloseLoopCond(idx + c, cur)
        /\ \A b \in 0..(c - 1) : CloseLoopCond(idx + b, cur)

\* lines 92-102: each iteration pushes one sample and increments
\* itered_index and compensation_counter
CompensationLine(smp, idx, from, to, cur, last) ==
    LET n == LineIterations(idx, cur)
    IN  [samples |-> smp \o [k \in 1..n |->
                        CompensationSample(from, to, cur, k - 1, last)],
         itered_index |-> idx + n,
         counter |-> n]

\* lines 132-142
CompensationClose(smp, idx, from, to, cur, last) ==
    LET n == CloseIterations(idx, cur)
    IN  [samples |-> smp \o [k \in 1..n |->
                        CompensationSample(from, to, cur, k - 1, last)],
         itered_index |-> idx + n,
         counter |-> n]

\* With a sample interval of 0 the condition of line 93 holds for every
\* index: the loop of lines 93-102 does not terminate.
LineLoopForever == sample_length.den > 0 /\ sample_length.num = 0

(* ----------------------------- path_to_fft ----------------------------- *)
RemoveAt(s, k) == SubSeq(s, 1, k - 1) \o SubSeq(s, k + 1, Len(s))

\* variant: no trimming
TrimSamplesNone(s, n) == s

\* lines 155-157: while samples.len() > n_sample { samples.remove(n_sample) }
RECURSIVE TrimSamples(_, _)
TrimSamples(s, n) ==
    IF Len(s) > n THEN TrimSamples(RemoveAt(s, n + 1), n) ELSE s

\* the coefficient of spectrum bin k of the transform of the sample set
Bin(k) == [bin |-> k]

\* fft.process on a buffer whose length is not a multiple of the planned
\* size panics; a planned size of 0 returns at once
FftPanics(buffer, n) == n > 0 /\ Len(buffer) % n # 0

(* ------------------------- component extraction ------------------------ *)
fft_size == num_sample

DrawData(freq, coef) == [freq |-> freq, coef |-> coef]

\* fft_result[k] of the code (0-based)
At(fft, k) == fft[k + 1]

\* variant: the negative frequency is pushed first
PairNegFirst(i, fft, size) ==
    <<DrawData(0 - i, At(fft, size - i)), DrawData(i, At(fft, i))>>

\* lines 250-251: the two components pushed by iteration i
Pair(i, fft, size) ==
    <<DrawData(i, At(fft, i)), DrawData(0 - i, At(fft, size - i))>>

\* line 249: the number of iterations of `for i in 1..(num_wave / 2)`
\* (the range excludes its upper end and is empty when it is not above 1)
PairCount(wave) == IF wave \div 2 > 1 THEN wave \div 2 - 1 ELSE 0

\* lines 246-252: the component of frequency 0, then the pairs of
\* iterations 1, 2, ... in order
Extract(fft, size, wave) ==
    <<DrawData(0, At(fft, 0))>>
    \o [k \in 1..(2 * PairCount(wave)) |->
          Pair((k + 1) \div 2, fft, size)[IF k % 2 = 1 THEN 1 ELSE 2]]

\* every index read by lines 247-252 is inside the vector
ReadsInBounds(fft, size, wave) ==
    /\ 0 < Len(fft)
    /\ \A i \in 1..(wave \div 2 - 1) :
         /\ i < Len(fft)
         /\ size - i >= 0
         /\ size - i < Len(fft)

(* -------------------------------- Init --------------------------------- *)
Init ==
    /\ opt_path \in PathOptions
    /\ opt_sample \in SampleOptions
    /\ opt_wave \in WaveOptions
    /\ pc = "main"
    /\ arg_sample = 0
    /\ arg_wave = 0
    /\ num_sample = 0
    /\ num_wave = 0
    /\ path_length = 0
    /\ sample_length = [num |-> 0, den |-> 1]
    /\ samples = <<>>
    /\ itered_length = 0
    /\ itered_index = 0
    /\ evt_pos = 1
    /\ zero_division = FALSE
    /\ fft_result = <<>>
    /\ data = <<>>

(* ------------------------------- actions ------------------------------- *)
\* value_of(..).unwrap_or(default)
ValueOr(opt, default) == IF opt = <<>> THEN default ELSE opt[1]

\* line 232: the string parsed for num_sample
NumSampleSource(a_sample, a_wave) == a_wave

\* main, lines 212-240: without a path main returns at line 229, before
\* the counts are parsed
ParseArgs ==
    /\ pc = "main"
    /\ arg_sample' = ValueOr(opt_sample, DefaultSampleArg)
    /\ arg_wave' = ValueOr(opt_wave, DefaultWaveArg)
    /\ IF opt_path = <<>>
       THEN /\ pc' = "exit"
            /\ UNCHANGED <<num_sample, num_wave>>
       ELSE /\ num_sample' = NumSampleSource(arg_sample', arg_wave')
            /\ num_wave' = IF num_sample' < arg_wave' THEN num_sample'
                           ELSE arg_wave'
            /\ pc' = "path_to_fft"
    /\ UNCHANGED <<opt_path, opt_sample, opt_wave, path_length, sample_length,
                   samples, itered_length, itered_index, evt_pos,
                   zero_division, fft_result, data>>

\* path_to_fft line 152 and construct_sample_points lines 47-63
ConstructStart ==
    /\ pc = "path_to_fft"
    /\ path_length' = compute_path_length(opt_path[1])
    /\ samples' = <<>>
    /\ itered_length' = 0
    /\ itered_index' = 0
    /\ sample_length' = [num |-> path_length', den |-> num_sample]
    /\ zero_division' = (zero_division \/ num_sample = 0)
    /\ evt_pos' = 1
    /\ pc' = "resample"
    /\ UNCHANGED <<opt_path, opt_sample, opt_wave, arg_sample, arg_wave,
                   num_sample, num_wave, fft_result, data>>

\* lines 66-71
BeginEvent ==
    /\ pc = "resample"
    /\ evt_pos <= Len(evts)
    /\ evt.type = "Begin"
    /\ samples' = Append(samples, Complex(evt.from[1] * Scale, evt.from[2] * Scale))
    /\ itered_index' = itered_index + 1
    /\ evt_pos' = evt_pos + 1
    /\ UNCHANGED <<opt_path, opt_sample, opt_wave, pc, arg_sample, arg_wave,
                   num_sample, num_wave, path_length, sample_length,
                   itered_length, zero_division, fft_result, data>>

\* lines 72-106
LineEvent ==
    /\ pc = "resample"
    /\ evt_pos <= Len(evts)
    /\ evt.type = "Line"
    /\ LET from == evt.from
           to == evt.to
           next == Times(sample_length, itered_index)
           cur == Length(from, to)
           fits == FirstSampleFits(itered_length, cur, next)
           last == IF fits THEN LastAdded(itered_length, itered_index) ELSE 0
           smp1 == IF fits THEN Append(samples, Interpolate(from, to, cur, last))
                   ELSE samples
           idx1 == IF fits THEN itered_index + 1 ELSE itered_index
       IN  IF LineLoopForever
           THEN /\ samples' = smp1
                /\ itered_index' = idx1
                /\ zero_division' = (zero_division \/ (fits /\ cur = 0))
                /\ pc' = "compensation"
                /\ UNCHANGED <<itered_length, evt_pos>>
           ELSE LET r == CompensationLine(smp1, idx1, from, to, cur, last)
                IN  /\ samples' = r.samples
                    /\ itered_index' = r.itered_index
                    /\ zero_division' =
                         (zero_division \/ (cur = 0 /\ (fits \/ r.counter > 0)))
                    /\ itered_length' = itered_length + cur
                    /\ evt_pos' = evt_pos + 1
                    /\ pc' = pc
    /\ UNCHANGED <<opt_path, opt_sample, opt_wave, arg_sample, arg_wave,
                   num_sample, num_wave, path_length, sample_length,
                   fft_result, data>>

\* one more iteration of lines 93-102 when the loop does not terminate
\* (followed for MaxSpin iterations; the loop is entered with the Begin
\* sample only, so compensation_counter is Len(samples) - 1)
CompensationSpin ==
    /\ pc = "compensation"
    /\ Len(samples) <= MaxSpin
    /\ LineLoopCond(itered_index, Length(evt.from, evt.to))
    /\ samples' = Append(samples,
          CompensationSample(evt.from, evt.to, Length(evt.from, evt.to),
                             Len(samples) - 1, 0))
    /\ zero_division' = (zero_division \/ Length(evt.from, evt.to) = 0)
    /\ itered_index' = itered_index + 1
    /\ UNCHANGED <<opt_path, opt_sample, opt_wave, pc, arg_sample, arg_wave,
                   num_sample, num_wave, path_length, sample_length,
                   itered_length, evt_pos, fft_result, data>>

\* lines 107-144
EndEvent ==
    /\ pc = "resample"
    /\ evt_pos <= Len(evts)
    /\ evt.type = "End"
    /\ IF evt.close
       THEN LET from == evt.from
                to == evt.to
                next == Times(sample_length, itered_index)
                cur == Length(from, to)
                fits == FirstSampleFits(itered_length, cur, next)
                last == IF fits THEN LastAdded(itered_length, itered_index) ELSE 0
                smp1 == IF fits THEN Append(samples, Interpolate(from, to, cur, last))
                        ELSE samples
                idx1 == IF fits THEN itered_index + 1 ELSE itered_index
                r == CompensationClose(smp1, idx1, from, to, cur, last)
            IN  /\ samples' = r.samples
                /\ itered_index' = r.itered_index
                /\ zero_division' =
                     (zero_division \/ (cur = 0 /\ (fits \/ r.counter > 0)))
       ELSE UNCHANGED <<samples, itered_index, zero_division>>
    /\ evt_pos' = evt_pos + 1
    /\ UNCHANGED <<opt_path, opt_sample, opt_wave, pc, arg_sample, arg_wave,
                   num_sample, num_wave, path_length, sample_length,
                   itered_length, fft_result, data>>

\* line 148 and path_to_fft lines 153-157: the events are exhausted, the
\* samples are returned and trimmed
ReturnAndTrim ==
    /\ pc = "resample"
    /\ evt_pos > Len(evts)
    /\ samples' = TrimSamples(samples, num_sample)
    /\ pc' = "fft"
    /\ UNCHANGED <<opt_path, opt_sample, opt_wave, arg_sample, arg_wave,
                   num_sample, num_wave, path_length, sample_length,
                   itered_length, itered_index, evt_pos, zero_division,
                   fft_result, data>>

\* path_to_fft lines 158-166
Fft ==
    /\ pc = "fft"
    /\ IF FftPanics(samples, num_sample)
       THEN /\ pc' = "panic"
            /\ UNCHANGED <<samples, fft_result>>
       ELSE /\ fft_result' = [k \in 1..Len(samples) |-> Bin(k - 1)]
            /\ samples' = <<>>
            /\ pc' = "extract"
    /\ UNCHANGED <<opt_path, opt_sample, opt_wave, arg_sample, arg_wave,
                   num_sample, num_wave, path_length, sample_length,
                   itered_length, itered_index, evt_pos, zero_division, data>>

\* main, lines 245-256
ExtractAndRender ==
    /\ pc = "extract"
    /\ IF ReadsInBounds(fft_result, fft_size, num_wave)
       THEN /\ data' = Extract(fft_result, fft_size, num_wave)
            /\ pc' = "done"
       ELSE /\ pc' = "panic"
            /\ UNCHANGED data
    /\ UNCHANGED <<opt_path, opt_sample, opt_wave, arg_sample, arg_wave,
                   num_sample, num_wave, path_length, sample_length, samples,
                   itered_length, itered_index, evt_pos, zero_division,
                   fft_result>>

Next ==
    \/ ParseArgs
    \/ ConstructStart
    \/ BeginEvent
    \/ LineEvent
    \/ CompensationSpin
    \/ EndEvent
    \/ ReturnAndTrim
    \/ Fft
    \/ ExtractAndRender

Spec == Init /\ [][Next]_vars

(* ------------------------------ claims --------------------------------- *)
Path == opt_path[1]

Resampled == pc \in {"resample", "compensation", "fft", "extract", "done", "panic"}

\* the segments of the contour in traversal order, the closing segment
\* (last endpoint -> first point) last when the contour is closed
SegmentsOf(path) ==
    LET p == path.pts
        n == Len(p)
    IN  [k \in 1..(n - 1) |-> <<p[k], p[k + 1]>>]
        \o (IF path.close /\ n > 0 THEN <<<<p[n], p[1]>>>> ELSE <<>>)

RECURSIVE SumLengths(_, _)
SumLengths(segs, k) ==
    IF k > Len(segs) THEN 0
    ELSE Length(segs[k][1], segs[k][2]) + SumLengths(segs, k + 1)

\* the point (times Scale) at arc length t / Scale from the start point:
\* on the first segment of positive length that ends at or after it
RECURSIVE Walk(_, _, _, _)
Walk(segs, k, acc, t) ==
    LET from == segs[k][1]
        to == segs[k][2]
        len == Length(from, to)
    IN  IF len > 0 /\ t <= (acc + len) * Scale
        THEN Complex(from[1] * Scale + ((to[1] - from[1]) \div len) * (t - acc * Scale),
                     from[2] * Scale + ((to[2] - from[2]) \div len) * (t - acc * Scale))
        ELSE Walk(segs, k + 1, acc + len, t)

PointAt(path, t) == Walk(SegmentsOf(path), 1, 0, t)

IsPrefix(s, t) == Len(s) <= Len(t) /\ SubSeq(t, 1, Len(s)) = s

UnitSquare ==
    [pts |-> <<<<0, 0>>, <<1, 0>>, <<1, 1>>, <<0, 1>>>>, close |-> TRUE]

\* C1: for a contour of positive length and N >= 1, the walk over the
\* events ends with at least N samples, and the sample set handed to the
\* transform (after the trimming loop) has exactly N samples.
C1_SampleCount ==
    (opt_path # <<>> /\ path_length > 0 /\ num_sample >= 1) =>
        /\ (pc = "resample" /\ evt_pos > Len(evts)) => Len(samples) >= num_sample
        /\ pc = "fft" => Len(samples) = num_sample

\* an open contour: the walk produced N + 1 samples and the trimming loop
\* removed the last one
C1_Witness ==
    /\ pc = "fft"
    /\ path_length > 0
    /\ num_sample >= 2
    /\ ~Path.close
    /\ itered_index = num_sample + 1
    /\ Len(samples) = num_sample

\* C2: for a contour of positive length and N >= 1, sample i of the
\* final sample set lies on the contour at arc length i * (L / N) from the
\* start point, for every i in [0, N).
C2_SamplesOnContour ==
    (pc = "fft" /\ path_length > 0 /\ num_sample >= 1) =>
        \A i \in 0..(num_sample - 1) :
            /\ i + 1 <= Len(samples)
            /\ samples[i + 1] = PointAt(Path, i * path_length)

\* the closed unit square with N = 8: corners and edge midpoints in order
\* (coordinates times 8)
C2_Witness ==
    /\ pc = "fft"
    /\ opt_path = <<UnitSquare>>
    /\ num_sample = 8
    /\ samples = <<Complex(0, 0), Complex(4, 0), Complex(8, 0), Complex(8, 4),
                   Complex(8, 8), Complex(4, 8), Complex(0, 8), Complex(0, 4)>>

\* C3 (as claimed): the component list has exactly 2 * floor(W / 2) + 1
\* components.
C3_ComponentCountClaim ==
    pc = "done" => Len(data) = 2 * (num_wave \div 2) + 1

\* the smaller wave counts compared with the one of the run: the first
\* MaxWaveArg of them and the nearest ones
SmallerWaves ==
    {w \in 0..num_wave : w <= MaxWaveArg \/ w >= num_wave - 3}

\* C4: position 0 holds frequency 0 with bin 0, position 2i - 1 holds
\* frequency +i with bin i and position 2i holds frequency -i with bin
\* N - i, and the list extracted from the same spectrum for any smaller wave
\* count is a prefix of the list.
C4_ComponentOrder ==
    pc = "done" =>
        /\ Len(data) % 2 = 1
        /\ data[1] = DrawData(0, Bin(0))
        /\ \A i \in 1..((Len(data) - 1) \div 2) :
             /\ data[2 * i] = DrawData(i, Bin(i))
             /\ data[2 * i + 1] = DrawData(0 - i, Bin(fft_size - i))
        /\ \A w \in SmallerWaves :
             IsPrefix(Extract(fft_result, fft_size, w), data)

\* a list with two pairs: frequencies 0, +1, -1, +2, -2
C4_Witness ==
    /\ pc = "done"
    /\ Len(data) = 5
    /\ data[4].freq = 2
    /\ data[5].freq = 0 - 2

\* C5 (as claimed): a run with wave count W greater than the sample count
\* N >= 1 clamps the wave count to N and produces the component list of the
\* run with W = N.
C5_ClampClaim ==
    (pc \notin {"main", "exit"} /\ arg_sample >= 1 /\ arg_wave > arg_sample) =>
        /\ num_wave = arg_sample
        /\ pc = "done" =>
             data = Extract([k \in 1..arg_sample |-> Bin(k - 1)],
                            arg_sample, arg_sample)

\* C6 (as claimed): with a total arc length of 0 the resampler divides by
\* no zero length, does not stay in a loop, and no samples are handed to
\* the transform.
C6_DegenerateClaim ==
    (Resampled /\ path_length = 0 /\ num_sample >= 1) =>
        /\ ~zero_division
        /\ pc # "compensation"
        /\ pc \in {"fft", "extract", "done"} =>
             (samples = <<>> /\ fft_result = <<>>)

\* C7 (as claimed): with a sample count of 0 no step L / N is computed, no
\* sample is emitted, no transform is run and no spectrum bin is read.
C7_ZeroSampleCountClaim ==
    (pc \notin {"main", "exit"} /\ num_sample = 0) =>
        /\ ~zero_division
        /\ samples = <<>>
        /\ pc \notin {"fft", "extract", "done", "panic"}

\* C8 (as claimed): the number of samples and the transform size are the
\* configured sample count (the sample option, 10240 when absent).
C8_SampleCountSourceClaim ==
    pc \notin {"main", "exit"} =>
        /\ arg_sample = ValueOr(opt_sample, DefaultSampleArg)
        /\ num_sample = arg_sample
        /\ fft_size = arg_sample

\* C9: the measured length is the sum of the lengths of the line segments,
\* plus the length of the closing segment exactly when the end event is
\* marked closed; no segments and not closed gives 0.
C9_LengthConservation ==
    Resampled => path_length = SumLengths(SegmentsOf(Path), 1)

\* the closed unit square: three line segments and the closing segment
C9_Witness ==
    /\ pc = "resample"
    /\ opt_path = <<UnitSquare>>
    /\ evt_pos = 1
    /\ path_length = 4

ZeroLengthSegment(e) ==
    /\ e.type = "Line" \/ (e.type = "End" /\ e.close)
    /\ e.from = e.to

\* C10: in a contour of positive length with N >= 1, processing a segment
\* of length 0 (a Line event or the closing segment) emits no sample, leaves
\* the next-sample index and the traveled length unchanged, and divides by
\* no zero length.
C10_ZeroLengthSegmentInert ==
    [][(/\ pc = "resample"
        /\ evt_pos <= Len(evts)
        /\ ZeroLengthSegment(evt)
        /\ path_length > 0
        /\ num_sample >= 1)
       => (/\ samples' = samples
           /\ itered_index' = itered_index
           /\ itered_length' = itered_length
           /\ ~zero_division')]_vars

\* a zero-length Line event in the middle of a contour has been processed
C10_Witness ==
    /\ pc = "resample"
    /\ path_length > 0
    /\ num_sample >= 1
    /\ evt_pos = 4
    /\ evt_pos <= Len(evts)
    /\ ZeroLengthSegment(evts[3])
    /\ evts[3].type = "Line"
    /\ itered_length > 0
    /\ Len(samples) >= 2

====
